---- MODULE Spec2Model ----
(***************************************************************************)
(* Model of generator.py: the keras Sequence "Generator" that scans a      *)
(* class-per-directory image dataset, one-hot encodes the labels, shuffles *)
(* with a fixed seed, partitions into wrap-around groups of BATCH_SIZE and *)
(* serves zero-padded image batches.                                       *)
(*                                                                         *)
(* Class names are integers; their numeric order stands for the string     *)
(* order the encoder sorts by.  A path is <<class name, file name>>.       *)
(* An image is a nested sequence img[row][col][channel], as a numpy array. *)
(* A float32 pixel is the integer n with value n / 2^24 (every value the   *)
(* normalisation produces is a multiple of 2^-24).                         *)
(***************************************************************************)
EXTENDS Integers, Sequences, FiniteSets, TLC

VARIABLES
    fs,              \* the dataset directory: listing order of the class directories and file count of each
    corrupt,         \* the set of paths that the image codec cannot decode
    pc,              \* "new" before __init__, "ready" after
    batch_size,      \* self.batch_size
    shuffle_images,  \* self.shuffle_images
    image_min_side,  \* self.image_min_side
    classes,         \* self.classes
    image_paths,     \* self.image_paths
    image_labels,    \* self.image_labels
    image_groups,    \* self.image_groups
    label_groups,    \* self.label_groups
    result,          \* what the last __len__ / __getitem__ call returned or raised
    args,            \* argument of a pure method applied on its own
    ret              \* its return value, <<>> before the call

gen == <<batch_size, shuffle_images, image_min_side, classes, image_paths,
         image_labels, image_groups, label_groups>>
vars == <<fs, corrupt, pc, batch_size, shuffle_images, image_min_side, classes,
          image_paths, image_labels, image_groups, label_groups, result, args, ret>>

-----------------------------------------------------------------------------
(* Bounds *)
MaxClasses == 2     \* class directories under the root
MaxSamples == 5     \* files in the whole dataset
MaxShuffle == 2     \* largest dataset shuffled when calls follow the construction
MaxShuffleBuild == 4  \* largest dataset shuffled when the construction is explored alone
MaxBatch == 3       \* BATCH_SIZE
MaxMinSide == 2     \* image_min_side given to the constructor
MaxIndex == 2       \* |index| given to __getitem__
MaxDim == 13        \* height / width given to resize_image
MaxTarget == 15     \* min_side_len given to resize_image
MaxGroup == 2       \* images given to construct_image_batch
MaxCell == 2        \* height / width of those images

(* Program constants *)
MaxPixel == 255     \* largest value of an 8-bit RGB channel
Channels == 3       \* channels of an RGB image

-----------------------------------------------------------------------------
(* Helpers *)
Min(a, b) == IF a < b THEN a ELSE b
Max(a, b) == IF a > b THEN a ELSE b

RECURSIVE SetMax(_)
SetMax(S) == LET x == CHOOSE y \in S : TRUE
             IN IF S = {x} THEN x ELSE Max(x, SetMax(S \ {x}))

RECURSIVE SumSeq(_)
SumSeq(s) == IF s = <<>> THEN 0 ELSE Head(s) + SumSeq(Tail(s))

RECURSIVE Concat(_)
Concat(ss) == IF ss = <<>> THEN <<>> ELSE Head(ss) \o Concat(Tail(ss))

Range(s) == {s[i] : i \in DOMAIN s}

CeilDiv(n, b) == (n + b - 1) \div b

Pow2(n) == 2 ^ n

\* the sequence <<F(1), ..., F(n)>>
RECURSIVE Tab(_, _)
Tab(F(_), n) == IF n = 0 THEN <<>> ELSE Append(Tab(F, n - 1), F(n))

-----------------------------------------------------------------------------
(* IEEE-754 arithmetic on the few expressions the program evaluates,       *)
(* carried out on integers.                                                *)

\* (2^s) % m for 0 <= s <= 60, without leaving 32-bit integers
PowMod(s, m) == ((Pow2(s \div 2) % m) * (Pow2(s - s \div 2) % m)) % m

\* floor(log2(a / b)) for a, b >= 1
RECURSIVE Log2Up(_, _, _)
Log2Up(a, b, e) == IF b * Pow2(e + 1) <= a THEN Log2Up(a, b, e + 1) ELSE e
RECURSIVE Log2Down(_, _, _)
Log2Down(a, b, k) == IF a * Pow2(k) < b THEN Log2Down(a, b, k + 1) ELSE k
Log2Floor(a, b) == IF a >= b THEN Log2Up(a, b, 0) ELSE 0 - Log2Down(a, b, 1)

\* float(a) / b in binary64, round to nearest even.  The quotient is
\* (a * 2^s + d) / (b * 2^s) with s = 52 - e: d is the rounding error
\* scaled by b * 2^s, e the binary exponent of the quotient.
TrueDivide(a, b) ==
    LET e == Log2Floor(a, b)
        v == ((a % (2 * b)) * PowMod(52 - e, 2 * b)) % (2 * b)  \* (a * 2^s) % 2b
        r == v % b                     \* remainder of a * 2^s by b
        odd == v >= b                  \* parity of the 53-bit quotient
        up == 2 * r > b \/ (2 * r = b /\ odd)
    IN [a |-> a, b |-> b, e |-> e, d |-> IF up THEN b - r ELSE 0 - r]

\* the literal 1. as a quotient
One == [a |-> 1, b |-> 1, e |-> 0, d |-> 0]

\* int(x * q) for an integer x >= 1 and a binary64 quotient q >= 1: the
\* product is rounded to binary64 and then truncated.  The exact product
\* is k + (rho * 2^s + x * d) / (b * 2^s); it only rounds below the integer
\* k when rho = 0 and the negative error exceeds half a unit in the last
\* place below k.
IntOfProduct(x, q) ==
    LET k == (x * q.a) \div q.b
        rho == (x * q.a) % q.b
        lg == Log2Floor(k, 1)
        ek == IF k = Pow2(lg) THEN lg - 1 ELSE lg
        lhs == 2 * x * (0 - q.d)
        below == IF ek >= q.e THEN lhs > q.b * Pow2(ek - q.e)
                 ELSE lhs * Pow2(q.e - ek) > q.b
    IN IF rho # 0 \/ q.d >= 0 THEN k
       ELSE IF below THEN k - 1 ELSE k

\* round n / 2^k to the nearest integer, ties to even
RoundShift(n, k) ==
    LET t == n \div Pow2(k)
        rem == n % Pow2(k)
        half == Pow2(k - 1)
    IN IF rem > half \/ (rem = half /\ t % 2 = 1) THEN t + 1 ELSE t

\* a variant that divides by 128 instead of 127.5: p / 128 - 1 is exact
NormalizePixelBy128(p) == p * Pow2(17) - Pow2(24)

\* float32(p) / 127.5 - 1. in binary32, in units of 2^-24.
\* p / 127.5 = 2p / 255; the rounded quotient is q * 2^(e - 23) with a 24-bit
\* q = round(2p * 2^(23 - e) / 255), computed as x * 256 / 255 for
\* x = 2p * 2^(15 - e) to stay within 32-bit integers.
NormalizePixel(p) ==
    IF p = 0 THEN 0 - Pow2(24)
    ELSE LET e == Log2Floor(2 * p, MaxPixel)
             x == 2 * p * Pow2(15 - e)
             lo == (x % MaxPixel) * (MaxPixel + 1)
             q0 == (x \div MaxPixel) * (MaxPixel + 1) + lo \div MaxPixel
             r == lo % MaxPixel
             q == IF 2 * r > MaxPixel \/ (2 * r = MaxPixel /\ q0 % 2 = 1)
                  THEN q0 + 1 ELSE q0
         IN IF e >= 0 - 1 THEN q * Pow2(e + 1) - Pow2(24)
            ELSE 0 - RoundShift(Pow2(24) * Pow2(0 - e - 1) - q, 0 - e - 1)

-----------------------------------------------------------------------------
(* Images *)
Shape(img) == <<Len(img), Len(img[1]), Len(img[1][1])>>

\* an h x w image whose every pixel has the channel values px
Uniform(h, w, px) == Tab(LAMBDA r : Tab(LAMBDA c : px, w), h)

\* x.astype(np.float32); x /= 127.5; x -= 1. for each 8-bit value
Normalized == [p \in 0..MaxPixel |-> NormalizePixel(p)]

\* Generator.preprocess_image
PreprocessImage(x) ==
    Tab(LAMBDA r : Tab(LAMBDA c :
        Tab(LAMBDA ch : Normalized[x[r][c][ch]], Len(x[r][c])), Len(x[r])), Len(x))

\* resize_image, the scale: min_side_len over the shorter side, or 1.
ImScale(h, w, min_side_len) ==
    IF Min(h, w) < min_side_len
    THEN IF h < w THEN TrueDivide(min_side_len, h) ELSE TrueDivide(min_side_len, w)
    ELSE One

\* resize_image, the new shape <<new_h, new_w>>
ResizeShape(h, w, min_side_len) ==
    LET im_scale == ImScale(h, w, min_side_len)
    IN <<IntOfProduct(h, im_scale), IntOfProduct(w, im_scale)>>

\* cv2.resize(img, (new_w, new_h), INTER_AREA): an unchanged size copies the
\* image; a resampled uniform image is uniform.
Cv2Resize(img, new_w, new_h) ==
    IF <<new_h, new_w>> = <<Len(img), Len(img[1])>> THEN img
    ELSE Uniform(new_h, new_w, img[1][1])

\* resize_image without the pixels: the new shape and the two returned ratios
ResizeResult(h, w, min_side_len) ==
    LET new == ResizeShape(h, w, min_side_len)
    IN [new_h |-> new[1], new_w |-> new[2],
        rh |-> TrueDivide(new[1], h), rw |-> TrueDivide(new[2], w)]

\* Generator.resize_image: <<re_im, new_h / h, new_w / w>>
ResizeImage(img, min_side_len) ==
    LET res == ResizeResult(Len(img), Len(img[1]), min_side_len)
    IN <<Cv2Resize(img, res.new_w, res.new_h), res.rh, res.rw>>

\* tuple(max(image.shape[x] for image in image_group) for x in range(3))
MaxShape(image_group) ==
    Tab(LAMBDA x : SetMax({Shape(image_group[i])[x] : i \in DOMAIN image_group}), 3)

\* a variant that copies the image to the bottom right corner of its slot
PadImageBottomRight(image, max_shape) ==
    Tab(LAMBDA r : Tab(LAMBDA c : Tab(LAMBDA ch :
        IF r > max_shape[1] - Len(image) /\ c > max_shape[2] - Len(image[1])
        THEN image[r - (max_shape[1] - Len(image))][c - (max_shape[2] - Len(image[1]))][ch]
        ELSE 0,
        max_shape[3]), max_shape[2]), max_shape[1])

\* one slot of np.zeros(... + max_shape) after
\* image_batch[image_index, :shape[0], :shape[1], :shape[2]] = image
PadImage(image, max_shape) ==
    Tab(LAMBDA r : Tab(LAMBDA c : Tab(LAMBDA ch :
        IF r <= Len(image) /\ c <= Len(image[1]) /\ ch <= Len(image[1][1])
        THEN image[r][c][ch] ELSE 0,
        max_shape[3]), max_shape[2]), max_shape[1])

\* a slot of np.zeros(... + max_shape) that no image is copied to
ZeroImage(max_shape) ==
    Tab(LAMBDA r : Tab(LAMBDA c : Tab(LAMBDA ch : 0,
        max_shape[3]), max_shape[2]), max_shape[1])

\* what construct_image_batch returns, or the exception it raises
Raised(exception) == [status |-> exception, batch |-> <<>>]

\* image_batch = np.zeros((self.batch_size,) + max_shape), then the copy of
\* image image_index into image_batch[image_index]: an image whose index is
\* not below self.batch_size has no slot and the assignment raises IndexError;
\* a slot beyond the group stays zero
FillBatch(image_group, bsize, max_shape) ==
    IF Len(image_group) > bsize
    THEN Raised("IndexError")
    ELSE [status |-> "ok",
          batch |-> Tab(LAMBDA i : IF i <= Len(image_group)
                                   THEN PadImage(image_group[i], max_shape)
                                   ELSE ZeroImage(max_shape), bsize)]

\* Generator.construct_image_batch with self.batch_size = bsize; max() of an
\* empty group raises ValueError before the batch is allocated
ConstructImageBatch(image_group, bsize) ==
    IF Len(image_group) = 0
    THEN Raised("ValueError")
    ELSE FillBatch(image_group, bsize, MaxShape(image_group))

-----------------------------------------------------------------------------
(* The dataset directory and the image codec *)

\* the file system trees explored: class directories named 1..MaxClasses, a
\* non-empty subset of them listed in any order, files named 1..k in each
Listings ==
    {l \in UNION {[1..k -> 1..MaxClasses] : k \in 1..MaxClasses} :
        \A i, j \in DOMAIN l : i # j => l[i] # l[j]}

Trees ==
    {t \in UNION {[listing : {l}, files : [Range(l) -> 0..MaxSamples]] : l \in Listings} :
        SumSeq([i \in DOMAIN t.listing |-> t.files[t.listing[i]]]) \in 1..MaxSamples}

\* os.listdir(class_path) joined to the class path
ClassFiles(t, class_name) == Tab(LAMBDA f : <<class_name, f>>, t.files[class_name])

\* the pixels stored in a file: a uniformly coloured RGB image whose shape and
\* colour vary with the path
RawShape(path) == <<1 + (path[2] % 2), 1 + ((path[1] + path[2]) % 2)>>
RawColour(path) == <<(path[1] * 85) % (MaxPixel + 1), (path[2] * 51) % (MaxPixel + 1), MaxPixel>>

\* the files the codec rejects: the third file of class directory 1, where present
Undecodable == {<<1, 3>>}

\* np.asarray(Image.open(image_path).convert('RGB'))
ImageOpen(path) == Uniform(RawShape(path)[1], RawShape(path)[2], RawColour(path))

\* img[:, :, ::-1]
ReverseChannels(img) ==
    Tab(LAMBDA r : Tab(LAMBDA c :
        Tab(LAMBDA ch : img[r][c][Len(img[r][c]) + 1 - ch], Len(img[r][c])), Len(img[r])), Len(img))

-----------------------------------------------------------------------------
(* Generator.load_image_paths_labels *)

\* lb.categories_[0].tolist(): the distinct class names, sorted
RECURSIVE SortSet(_)
SortSet(S) == IF S = {} THEN <<>>
              ELSE LET m == CHOOSE x \in S : \A y \in S : x <= y
                   IN <<m>> \o SortSet(S \ {m})

Categories(t) == SortSet(Range(t.listing))

\* lb.transform: the one-hot row of a class name over the fitted categories
OneHot(categories, class_name) ==
    Tab(LAMBDA i : IF categories[i] = class_name THEN 1 ELSE 0, Len(categories))

\* self.image_paths as scanned: the files of each class, in listing order
ScanPaths(t) == Concat(Tab(LAMBDA i : ClassFiles(t, t.listing[i]), Len(t.listing)))

\* a variant that fits the encoder on the labels of the samples instead of
\* the class directories: a class without files gets no column
ScanLabelsFitOnSamples(t) ==
    LET names == Tab(LAMBDA i : ScanPaths(t)[i][1], Len(ScanPaths(t)))
    IN Tab(LAMBDA i : OneHot(SortSet(Range(names)), names[i]), Len(names))

\* self.image_labels as scanned: one one-hot row per path
ScanLabels(t) ==
    LET names == Tab(LAMBDA i : ScanPaths(t)[i][1], Len(ScanPaths(t)))
    IN Tab(LAMBDA i : OneHot(Categories(t), names[i]), Len(names))

-----------------------------------------------------------------------------
(* Generator.create_image_groups *)

\* the values random_interval can return during one shuffle of n items: for
\* i = n-1 .. 1 a draw j with 0 <= j <= i.  The generator is re-seeded with
\* the same seed before each shuffle, so both shuffles see the same draws.
DrawSeqs(n) == {d \in [1..(n - 1) -> 0..(n - 1)] : \A i \in DOMAIN d : d[i] <= i}

\* the draws a construction can see: none without shuffling; datasets larger
\* than max are explored without shuffling only
Draws(n, shuffle, max) ==
    IF ~shuffle THEN {<<>>} ELSE IF n <= max THEN DrawSeqs(n) ELSE {}

Swap(x, i, j) == [x EXCEPT ![i] = x[j], ![j] = x[i]]

\* np.random.shuffle: for i in reversed(range(1, n)): swap x[i], x[j]
RECURSIVE ShuffleFrom(_, _, _)
ShuffleFrom(x, draws, i) ==
    IF i < 1 THEN x ELSE ShuffleFrom(Swap(x, i + 1, draws[i] + 1), draws, i - 1)

Shuffle(x, draws) == ShuffleFrom(x, draws, Len(x) - 1)

\* np.random.seed(seed); np.random.shuffle(self.image_paths)
ShufflePaths(paths, draws) == Shuffle(paths, draws)

\* a variant without the second np.random.seed(seed): the labels are shuffled
\* with the draws that follow, here the mirrored ones
ShuffleLabelsUnseeded(labels, draws) ==
    Shuffle(labels, [i \in DOMAIN draws |-> i - draws[i]])

\* np.random.seed(seed); np.random.shuffle(self.image_labels)
ShuffleLabels(labels, draws) == Shuffle(labels, draws)

\* range(start, stop, step) as a sequence
RECURSIVE RangeStep(_, _, _)
RangeStep(start, stop, step) ==
    IF start >= stop THEN <<>> ELSE <<start>> \o RangeStep(start + step, stop, step)

\* a variant without the modulo: the final group is cut at the end of x
GroupsShort(x, bsize) ==
    LET starts == RangeStep(0, Len(x), bsize)
    IN Tab(LAMBDA g : SubSeq(x, starts[g] + 1, Min(starts[g] + bsize, Len(x))), Len(starts))

\* a variant that clamps instead of wrapping: the final group repeats the last item
GroupsClamped(x, bsize) ==
    LET starts == RangeStep(0, Len(x), bsize)
    IN Tab(LAMBDA g : Tab(LAMBDA k : x[Min(starts[g] + k, Len(x))], bsize), Len(starts))

\* a variant that drops the final partial group
GroupsFloor(x, bsize) ==
    LET starts == RangeStep(0, Len(x) - bsize + 1, bsize)
    IN Tab(LAMBDA g : Tab(LAMBDA k : x[starts[g] + k], bsize), Len(starts))

\* [[x[j % len(x)] for j in range(i, i + bsize)] for i in range(0, len(x), bsize)]
Groups(x, bsize) ==
    LET starts == RangeStep(0, Len(x), bsize)
    IN Tab(LAMBDA g : Tab(LAMBDA k : x[((starts[g] + k - 1) % Len(x)) + 1], bsize),
           Len(starts))

-----------------------------------------------------------------------------
(* Generator.load_images and Generator.__getitem__ *)

\* the body of the loop of Generator.load_images: decode, reverse the channels,
\* normalise, resize
LoadImage(image_path, min_side) ==
    ResizeImage(PreprocessImage(ReverseChannels(ImageOpen(image_path))), min_side)[1]

\* LoadImage of every path and min_side explored, computed once
LoadedImages ==
    Tab(LAMBDA c : Tab(LAMBDA f : Tab(LAMBDA m : LoadImage(<<c, f>>, m),
        MaxMinSide), MaxSamples), MaxClasses)

\* Generator.load_images, when every file of the group decodes
LoadImages(image_group, min_side) ==
    Tab(LAMBDA k : LoadedImages[image_group[k][1]][image_group[k][2]][min_side],
        Len(image_group))

NoResult == [op |-> "none", index |-> 0, status |-> "none", value |-> 0,
             images |-> <<>>, labels |-> <<>>]

\* a variant that rejects every negative index
ListIndexNoNegative(len, index) == IF 0 <= index /\ index < len THEN index + 1 ELSE 0

\* list.__getitem__: the 1-based position an index selects, 0 when it raises
ListIndex(len, index) ==
    IF 0 <= index /\ index < len THEN index + 1
    ELSE IF index < 0 /\ index >= 0 - len THEN len + index + 1
    ELSE 0

\* return image_batch, np.array(label_group), or the exception of
\* construct_image_batch
BatchResult(index, image_batch, label_group) ==
    IF image_batch.status # "ok"
    THEN [NoResult EXCEPT !.op = "getitem", !.index = index, !.status = image_batch.status]
    ELSE [op |-> "getitem", index |-> index, status |-> "ok", value |-> 0,
          images |-> image_batch.batch, labels |-> label_group]

\* what Generator.__getitem__(index) returns or raises
GetItemResult(index) ==
    LET g == ListIndex(Len(image_groups), index)
        h == ListIndex(Len(label_groups), index)
    IN IF g = 0 \/ h = 0
       THEN [NoResult EXCEPT !.op = "getitem", !.index = index, !.status = "IndexError"]
       ELSE IF Range(image_groups[g]) \cap corrupt # {}
       THEN [NoResult EXCEPT !.op = "getitem", !.index = index, !.status = "DecodeError"]
       ELSE BatchResult(index,
                        ConstructImageBatch(LoadImages(image_groups[g], image_min_side),
                                            batch_size),
                        label_groups[h])

-----------------------------------------------------------------------------
(* The generator: construction, then any calls of __len__ and __getitem__ *)

Idle == args = <<>> /\ ret = <<>>

Init ==
    /\ fs \in Trees
    /\ corrupt = Undecodable \cap Range(ScanPaths(fs))
    /\ pc = "new"
    /\ batch_size = 0
    /\ shuffle_images = FALSE
    /\ image_min_side = 0
    /\ classes = <<>>
    /\ image_paths = <<>>
    /\ image_labels = <<>>
    /\ image_groups = <<>>
    /\ label_groups = <<>>
    /\ result = NoResult
    /\ Idle

\* Generator.__init__(DATASET_PATH, BATCH_SIZE, shuffle_images, image_min_side)
Construct(bsize, shuffle, min_side, draws) ==
    /\ pc = "new"
    /\ LET paths == IF shuffle THEN ShufflePaths(ScanPaths(fs), draws) ELSE ScanPaths(fs)
           labels == IF shuffle THEN ShuffleLabels(ScanLabels(fs), draws) ELSE ScanLabels(fs)
       IN /\ image_paths' = paths
          /\ image_labels' = labels
          /\ image_groups' = Groups(paths, bsize)
          /\ label_groups' = Groups(labels, bsize)
    /\ batch_size' = bsize
    /\ shuffle_images' = shuffle
    /\ image_min_side' = min_side
    /\ classes' = Categories(fs)
    /\ pc' = "ready"
    /\ UNCHANGED <<fs, corrupt, result, args, ret>>

\* Generator.__len__
LenCall ==
    /\ pc = "ready"
    /\ result' = [NoResult EXCEPT !.op = "len", !.status = "ok", !.value = Len(image_groups)]
    /\ UNCHANGED <<fs, corrupt, pc, gen, args, ret>>

\* a variant that consumes the group it serves
GetItemConsuming(index) ==
    /\ pc = "ready"
    /\ result' = GetItemResult(index)
    /\ LET g == ListIndex(Len(image_groups), index)
       IN image_groups' = IF g = 0 THEN image_groups
                          ELSE SubSeq(image_groups, 1, g - 1)
                               \o SubSeq(image_groups, g + 1, Len(image_groups))
    /\ UNCHANGED <<fs, corrupt, pc, batch_size, shuffle_images, image_min_side, classes,
                   image_paths, image_labels, label_groups, args, ret>>

\* Generator.__getitem__(index)
GetItem(index) ==
    /\ pc = "ready"
    /\ result' = GetItemResult(index)
    /\ UNCHANGED <<fs, corrupt, pc, gen, args, ret>>

ConstructAny(max) ==
    /\ pc = "new"
    /\ \E bsize \in 1..MaxBatch, shuffle \in BOOLEAN, min_side \in 1..MaxMinSide :
          \E draws \in Draws(Len(ScanPaths(fs)), shuffle, max) :
              Construct(bsize, shuffle, min_side, draws)

Next ==
    \/ ConstructAny(MaxShuffle)
    \/ LenCall
    \/ \E index \in (0 - MaxIndex)..MaxIndex : GetItem(index)

Spec == Init /\ [][Next]_vars

\* the construction alone, over larger shuffled datasets
NextBuild == ConstructAny(MaxShuffleBuild)

SpecBuild == Init /\ [][NextBuild]_vars

-----------------------------------------------------------------------------
(* The pure methods, each applied to arguments drawn from bounded sets *)

\* no dataset is scanned; resize_image and preprocess_image read no field of
\* the generator, construct_image_batch reads self.batch_size only
NoGenerator ==
    /\ fs = <<>>
    /\ corrupt = {}
    /\ shuffle_images = FALSE
    /\ image_min_side = 0
    /\ classes = <<>>
    /\ image_paths = <<>>
    /\ image_labels = <<>>
    /\ image_groups = <<>>
    /\ label_groups = <<>>
    /\ result = NoResult

Return(value) ==
    /\ pc = "call"
    /\ ret' = value
    /\ pc' = "done"
    /\ UNCHANGED <<fs, corrupt, gen, result, args>>

\* resize_image on an h x w image
InitResize ==
    /\ NoGenerator
    /\ batch_size = 0
    /\ pc = "call"
    /\ args \in [h : 1..MaxDim, w : 1..MaxDim, min_side_len : 1..MaxTarget]
    /\ ret = <<>>

ResizeCall == Return(ResizeResult(args.h, args.w, args.min_side_len))

SpecResize == InitResize /\ [][ResizeCall]_vars

\* preprocess_image on a one-pixel image of each 8-bit value
InitPreprocess ==
    /\ NoGenerator
    /\ batch_size = 0
    /\ pc = "call"
    /\ args \in {Uniform(1, 1, Tab(LAMBDA ch : p, Channels)) : p \in 0..MaxPixel}
    /\ ret = <<>>

PreprocessCall == Return(PreprocessImage(args))

SpecPreprocess == InitPreprocess /\ [][PreprocessCall]_vars

\* construct_image_batch on a group of images of differing shapes, by a
\* generator of any batch size below, equal to or above the group's; an image
\* of kind 0 is all zeros, the cells of an image of kind 1 are distinct
TestImage(h, w, kind) ==
    Tab(LAMBDA r : Tab(LAMBDA c : Tab(LAMBDA ch : kind * (100 * r + 10 * c + ch),
        Channels), w), h)

TestImages == {TestImage(h, w, kind) : h \in 1..MaxCell, w \in 1..MaxCell, kind \in 0..1}

ImageGroups == {<<>>} \cup UNION {[1..n -> TestImages] : n \in 1..MaxGroup}

InitBatch ==
    /\ NoGenerator
    /\ batch_size \in 0..MaxBatch
    /\ pc = "call"
    /\ args \in ImageGroups
    /\ ret = <<>>

BatchCall == Return(ConstructImageBatch(args, batch_size))

SpecBatch == InitBatch /\ [][BatchCall]_vars

-----------------------------------------------------------------------------
(* Properties *)

NumSamples == Len(image_paths)
NumGroups == Len(image_groups)

\* the 1-based SampleSet position of item k of group g under wraparound
WrapIndex(g, k) == (((g - 1) * batch_size + (k - 1)) % NumSamples) + 1

\* row is the one-hot row of class_name over self.classes
Encodes(row, class_name) ==
    /\ Len(row) = Len(classes)
    /\ \A i \in 1..Len(row) : row[i] = IF classes[i] = class_name THEN 1 ELSE 0

IsOneHot(row) == \E i \in 1..Len(row) : row[i] = 1 /\ \A j \in 1..Len(row) : j # i => row[j] = 0
Hot(row) == CHOOSE i \in 1..Len(row) : row[i] = 1

\* how often the sample at SampleSet position i is emitted in one epoch
Emitted(i) ==
    Cardinality({gk \in (1..NumGroups) \X (1..batch_size) :
                    image_groups[gk[1]][gk[2]] = image_paths[i]})

\* C1: after construction there are ceil(N / B) groups, length() returns that
\* number, every path group and label group holds exactly B items, and every
\* getItem(i) with 0 <= i < length() whose files decode returns exactly B
\* label rows and a batch tensor of exactly B slots.
C1_EveryBatchFull ==
    pc = "ready" =>
        /\ NumGroups = CeilDiv(NumSamples, batch_size)
        /\ Len(label_groups) = CeilDiv(NumSamples, batch_size)
        /\ result.op = "len" => result.value = CeilDiv(NumSamples, batch_size)
        /\ \A g \in DOMAIN image_groups : Len(image_groups[g]) = batch_size
        /\ \A g \in DOMAIN label_groups : Len(label_groups[g]) = batch_size
        /\ (result.op = "getitem" /\ 0 <= result.index /\ result.index < NumGroups) =>
              \/ /\ result.status = "DecodeError"
                 /\ Range(image_groups[result.index + 1]) \cap corrupt # {}
              \/ /\ result.status = "ok"
                 /\ Len(result.labels) = batch_size
                 /\ Len(result.images) = batch_size

\* a batch was served from a dataset smaller than the batch size
C1_Witness ==
    /\ pc = "ready"
    /\ batch_size > NumSamples
    /\ result.op = "getitem"
    /\ result.status = "ok"
    /\ Len(result.images) = batch_size

\* C2: item k of group g, path and label alike, is the sample at position
\* (g*B + k) mod N of the constructed SampleSet (0-based g, k); with N = 5,
\* B = 2 and no shuffle there are 3 groups and the last holds samples [4, 0].
C2_Wraparound ==
    pc = "ready" =>
        /\ NumGroups = CeilDiv(NumSamples, batch_size)
        /\ Len(label_groups) = NumGroups
        /\ \A g \in 1..NumGroups :
              /\ Len(image_groups[g]) = batch_size
              /\ Len(label_groups[g]) = batch_size
              /\ \A k \in 1..batch_size :
                    /\ image_groups[g][k] = image_paths[WrapIndex(g, k)]
                    /\ label_groups[g][k] = image_labels[WrapIndex(g, k)]
        /\ (NumSamples = 5 /\ batch_size = 2 /\ ~shuffle_images) =>
              /\ NumGroups = 3
              /\ image_groups[3] = <<ScanPaths(fs)[5], ScanPaths(fs)[1]>>

\* the scenario of the specification: cat with 2 images, dog with 3, B = 2
C2_Witness ==
    /\ pc = "ready"
    /\ fs.listing = <<1, 2>>
    /\ fs.files[1] = 2 /\ fs.files[2] = 3
    /\ batch_size = 2
    /\ ~shuffle_images
    /\ image_groups[3] = << <<2, 3>>, <<1, 1>> >>

\* C3 as stated: getItem(index) raises an index error and returns no batch
\* for every index outside 0 <= index < length(), negative ones included.
C3_EveryOutOfRangeFails ==
    (result.op = "getitem" /\ ~(0 <= result.index /\ result.index < NumGroups)) =>
        /\ result.status = "IndexError"
        /\ result.images = <<>>
        /\ result.labels = <<>>

\* C3 amended: getItem(index) raises an index error and returns no batch
\* exactly when index >= length() or index < -length(); an index with
\* -length() <= index < 0 selects group length() + index.
C3_IndexError ==
    result.op = "getitem" =>
        /\ result.status = "IndexError" <=>
              (result.index >= NumGroups \/ result.index < 0 - NumGroups)
        /\ result.status = "IndexError" => result.images = <<>> /\ result.labels = <<>>
        /\ (result.status = "ok" /\ result.index < 0) =>
              result.labels = label_groups[NumGroups + result.index + 1]

\* a call with a negative index below -length() failed
C3_Witness ==
    /\ pc = "ready"
    /\ result.op = "getitem"
    /\ result.index < 0
    /\ result.status = "IndexError"

\* C4: after construction, shuffled or not, the label row at each position
\* encodes the class directory of the path at that position, the SampleSet is
\* a permutation of the scanned one, and in every group the k-th label
\* belongs to the k-th path.
C4_PairingPreserved ==
    pc = "ready" =>
        /\ Len(image_labels) = NumSamples
        /\ \A i \in 1..NumSamples : Encodes(image_labels[i], image_paths[i][1])
        /\ NumSamples = Len(ScanPaths(fs))
        /\ Range(image_paths) = Range(ScanPaths(fs))
        /\ Len(label_groups) = NumGroups
        /\ \A g \in 1..NumGroups :
              /\ Len(label_groups[g]) = Len(image_groups[g])
              /\ \A k \in 1..Len(image_groups[g]) :
                    Encodes(label_groups[g][k], image_groups[g][k][1])

\* a shuffle moved both the paths and the labels of a two-class dataset
C4_Witness ==
    /\ pc = "ready"
    /\ shuffle_images
    /\ image_paths # ScanPaths(fs)
    /\ image_labels # ScanLabels(fs)

\* C5: every label row is as wide as the number of class directories (empty
\* ones included) and one-hot; two samples share the hot index exactly when
\* they share the class directory; the hot index is the position of the
\* sample's class name in self.classes.
C5_LabelEncoding ==
    pc = "ready" =>
        /\ Range(classes) = Range(fs.listing)
        /\ Len(classes) = Len(fs.listing)
        /\ \A i \in 1..Len(image_labels) :
              /\ Len(image_labels[i]) = Len(fs.listing)
              /\ IsOneHot(image_labels[i])
              /\ classes[Hot(image_labels[i])] = image_paths[i][1]
        /\ \A i, j \in 1..Len(image_labels) :
              (IsOneHot(image_labels[i]) /\ IsOneHot(image_labels[j])) =>
                  (Hot(image_labels[i]) = Hot(image_labels[j])
                      <=> image_paths[i][1] = image_paths[j][1])

\* two class directories listed out of order, the first in sorted order empty
C5_Witness ==
    /\ pc = "ready"
    /\ fs.listing = <<2, 1>>
    /\ fs.files[1] = 0
    /\ NumSamples >= 2

\* C9: once constructed, no call of length() or getItem(i), failed or not,
\* changes the SampleSet, the ClassIndex, the groups or the parameters, and
\* the result of getItem(i) is what getItem(i) yields in any later state.
C9_ReadOnly ==
    /\ [][pc = "ready" => UNCHANGED <<fs, corrupt, pc, gen>>]_vars
    /\ [](pc = "ready" /\ result.op = "getitem" => result = GetItemResult(result.index))

\* a call failed on an undecodable file
C9_Witness ==
    /\ pc = "ready"
    /\ result.op = "getitem"
    /\ result.status = "DecodeError"

\* C10: one epoch emits B * ceil(N / B) samples and visits every sample;
\* every group but the last is B consecutive unwrapped samples; when B <= N
\* the first B * ceil(N / B) - N samples are emitted twice, in the last
\* group, and all others once.
C10_EpochCoverage ==
    pc = "ready" =>
        /\ SumSeq(Tab(LAMBDA g : Len(image_groups[g]), NumGroups))
              = batch_size * CeilDiv(NumSamples, batch_size)
        /\ NumGroups >= 1
        /\ \A g \in 1..(NumGroups - 1) :
              image_groups[g] = SubSeq(image_paths, (g - 1) * batch_size + 1, g * batch_size)
        /\ (\A g \in 1..NumGroups : Len(image_groups[g]) = batch_size) =>
              /\ \A i \in 1..NumSamples : Emitted(i) >= 1
              /\ batch_size <= NumSamples =>
                    \A i \in 1..NumSamples :
                        IF i <= batch_size * CeilDiv(NumSamples, batch_size) - NumSamples
                        THEN /\ Emitted(i) = 2
                             /\ image_paths[i] \in Range(image_groups[NumGroups])
                        ELSE Emitted(i) = 1

\* an epoch whose last group wraps around to the start of a shuffled set
C10_Witness ==
    /\ pc = "ready"
    /\ shuffle_images
    /\ batch_size < NumSamples
    /\ NumSamples % batch_size # 0
    /\ Emitted(1) = 2

\* C6: for a group of B >= 1 images, B the generator's batch size,
\* construct_image_batch returns B slots of the shape (max h, max w, 3);
\* in slot i the region [0:h_i, 0:w_i, 0:3] equals image i cell for cell and
\* every other cell is zero.
C6_BatchAssembly ==
    (pc = "done" /\ Len(args) = batch_size /\ batch_size > 0) =>
        LET heights == {Len(args[i]) : i \in DOMAIN args}
            widths == {Len(args[i][1]) : i \in DOMAIN args}
            max_h == CHOOSE m \in heights : \A x \in heights : x <= m
            max_w == CHOOSE m \in widths : \A x \in widths : x <= m
        IN /\ ret.status = "ok"
           /\ Len(ret.batch) = batch_size
           /\ \A i \in 1..batch_size :
                 /\ Len(ret.batch[i]) = max_h
                 /\ \A r \in 1..max_h :
                       /\ Len(ret.batch[i][r]) = max_w
                       /\ \A c \in 1..max_w :
                             /\ Len(ret.batch[i][r][c]) = Channels
                             /\ \A ch \in 1..Channels :
                                   ret.batch[i][r][c][ch] =
                                       IF r <= Len(args[i]) /\ c <= Len(args[i][1])
                                       THEN args[i][r][c][ch] ELSE 0

\* two images, one taller and one wider, were padded in both directions
C6_Witness ==
    /\ pc = "done"
    /\ batch_size = 2
    /\ Len(args) = 2
    /\ Shape(args[1]) = <<1, 2, Channels>>
    /\ Shape(args[2]) = <<2, 1, Channels>>
    /\ args[1][1][2][1] # 0
    /\ args[2][2][1][1] # 0
    /\ ret.status = "ok"
    /\ Shape(ret.batch[1]) = <<2, 2, Channels>>
    /\ ret.batch[1][2][2][1] = 0

\* C7 as stated: when min(h, w) < min_side the resized shorter side equals
\* min_side and the longer side equals floor(longer * min_side / shorter);
\* otherwise the shape is unchanged; no dimension is ever reduced.
C7_ResizeInvariant ==
    pc = "done" =>
        LET shorter == Min(args.h, args.w)
            longer == Max(args.h, args.w)
        IN /\ IF shorter < args.min_side_len
              THEN /\ Min(ret.new_h, ret.new_w) = args.min_side_len
                   /\ Max(ret.new_h, ret.new_w) = (longer * args.min_side_len) \div shorter
              ELSE ret.new_h = args.h /\ ret.new_w = args.w
           /\ ret.new_h >= args.h
           /\ ret.new_w >= args.w

\* C8 as stated: every 8-bit value is normalised into the half-open range
\* [-1, 1), 0 to exactly -1.
C8_HalfOpenRange ==
    pc = "done" =>
        \A ch \in 1..Channels :
            /\ ret[1][1][ch] >= 0 - Pow2(24)
            /\ ret[1][1][ch] < Pow2(24)
            /\ args[1][1][ch] = 0 => ret[1][1][ch] = 0 - Pow2(24)

\* C8 amended: every 8-bit value p is normalised to p / 127.5 - 1 rounded to
\* float32 (within 2 units of 2^-24), which lies in the closed range [-1, 1]:
\* 0 maps to exactly -1, 255 to exactly 1 and no other value to 1.
C8_ClosedRange ==
    pc = "done" =>
        \A ch \in 1..Channels :
            LET p == args[1][1][ch]
                v == ret[1][1][ch]
                exact == (2 * p - MaxPixel) * ((Pow2(24) - 1) \div MaxPixel)
            IN /\ v >= 0 - Pow2(24)
               /\ v <= Pow2(24)
               /\ p = 0 => v = 0 - Pow2(24)
               /\ v = Pow2(24) <=> p = MaxPixel
               /\ v - exact <= 2 /\ exact - v <= 2

\* the value 255 was normalised to exactly 1
C8_Witness ==
    /\ pc = "done"
    /\ args[1][1][1] = MaxPixel
    /\ ret[1][1][1] = Pow2(24)

====
